---------------------------- MODULE Spec2Model ----------------------------
(***************************************************************************)
(* TabSnap fretboard mapping engine (src/TabSnap.jsx): candidate           *)
(* generator, chord optimizer (single-pitch path, beam search, fallback),  *)
(* sequence mapper and tab renderer; and the host component's go(), its   *)
(* timer chain and reset().                                                *)
(*                                                                         *)
(* JavaScript values are modelled as follows.                              *)
(*   - a Position {string, fret} is the record [string |-> s, fret |-> f]; *)
(*   - the value undefined is the record Undefined; reading a property of  *)
(*     it is a TypeError, which the operators report in a field "threw";   *)
(*   - a Number that holds a cost is an IEEE-754 double, kept exactly as   *)
(*     the pair [k, e] (see the section on doubles);                       *)
(*   - a string is a sequence of one-character strings.                    *)
(***************************************************************************)
EXTENDS Integers, Sequences, FiniteSets, TLC

(***************************************************************************)
(* Configuration tables                                                    *)
(***************************************************************************)

\* const TUNINGS: open-string pitches, string index 0 (high e) .. 5 (low E)
TUNINGS ==
    [ standard |-> <<64, 59, 55, 50, 45, 40>>,
      dropD    |-> <<64, 59, 55, 50, 45, 38>>,
      halfDown |-> <<63, 58, 54, 49, 44, 39>> ]

TuningNames == DOMAIN TUNINGS

\* const STRING_LABELS
STRING_LABELS == <<"e", "B", "G", "D", "A", "E">>

\* the loop bound "s < 6" of getCandidates and renderAsciiTab
Strings == 0..5

\* default parameter maxFret = 22 of getCandidates
maxFret == 22

\* the span limit of "if (span > 5) continue"
SpanLimit == 5

\* the beam width of "next.slice(0, 20)"
BeamWidth == 20

\* the value undefined
Undefined == [undef |-> TRUE]

\* a pitch that is not a number: "midiNote - open[s]" is then NaN and both
\* comparisons of "fret >= 0 && fret <= maxFret" are false.  The model writes
\* such a pitch as this value, which no arithmetic is ever applied to.
NotANumber == -1000

(***************************************************************************)
(* Small helpers                                                           *)
(***************************************************************************)

Abs(x) == IF x < 0 THEN -x ELSE x

Max2(a, b) == IF a < b THEN b ELSE a

Min2(a, b) == IF a < b THEN a ELSE b

\* Math.max(...xs) / Math.min(...xs) of a non-empty sequence of integers
RECURSIVE MaxSeq(_)
MaxSeq(xs) == IF Len(xs) = 1 THEN xs[1] ELSE Max2(xs[1], MaxSeq(Tail(xs)))

RECURSIVE MinSeq(_)
MinSeq(xs) == IF Len(xs) = 1 THEN xs[1] ELSE Min2(xs[1], MinSeq(Tail(xs)))

\* Array.prototype.slice(0, n)
Slice(xs, n) == SubSeq(xs, 1, Min2(n, Len(xs)))

RECURSIVE Flatten(_)
Flatten(xss) == IF xss = <<>> THEN <<>> ELSE Head(xss) \o Flatten(Tail(xss))

(***************************************************************************)
(* IEEE-754 doubles of the cost arithmetic                                 *)
(*                                                                         *)
(* Every cost is a sum of multiples of 0.05, so a double x is kept as the  *)
(* pair [k, e] with   x = k/20 + e * u,   u = 2^-57 / 5 :  k/20 is the     *)
(* decimal value the source text denotes and e the binary rounding error.  *)
(* All doubles that occur are multiples of 2^-57, so e is an integer.      *)
(* In units of u, k/20 is k * 2^55 and the spacing of the doubles in       *)
(* [2^(j-5), 2^(j-4)) is 5 * 2^j.                                          *)
(***************************************************************************)

Dbl(k, e) == [k |-> k, e |-> e]

\* the literals 0.05, 0.1, 0.2, 0.3, 0.5 and 0 as doubles
D005 == Dbl(1, 2)
D01  == Dbl(2, 4)
D02  == Dbl(4, 8)
D03  == Dbl(6, -8)
D05  == Dbl(10, 0)
DZero == Dbl(0, 0)

\* 2^n mod 5
Pow2Mod5(n) == <<1, 2, 4, 3>>[(n % 4) + 1]

\* j with 2^(j-5) <= |k/20 + e*u| < 2^(j-4), for k # 0
dblExponent(k, e) ==
    LET a  == Abs(k)
        se == IF k > 0 THEN e ELSE -e
        j  == CHOOSE i \in 0..20 : 5 * 2^i <= 8 * a /\ 8 * a < 5 * 2^(i + 1)
    IN  IF 5 * 2^j = 8 * a /\ se < 0 THEN j - 1 ELSE j

\* round the real number k/20 + e*u to the nearest double, ties to even
dblRound(k, e) ==
    IF k = 0 THEN Dbl(0, e)
    ELSE LET j  == dblExponent(k, e)
             G  == 5 * 2^j
             b5 == (k * Pow2Mod5(55 - j)) % 5
             T  == 2^j * b5 + e
             q  == T \div G
             r  == T - q * G
             up == \/ 2 * r > G
                   \/ 2 * r = G /\ (b5 + q) % 2 # 0
             q2 == IF up THEN q + 1 ELSE q
         IN  Dbl(k, q2 * G - 2^j * b5)

\* a + b, a - b, n * c (n an integer) and a < b on doubles
dblAdd(a, b) == dblRound(a.k + b.k, a.e + b.e)

dblSub(a, b) == dblRound(a.k - b.k, a.e - b.e)

dblMulInt(n, c) == dblRound(n * c.k, n * c.e)

dblLess(a, b) == a.k < b.k \/ (a.k = b.k /\ a.e < b.e)

(***************************************************************************)
(* getCandidates (src/TabSnap.jsx:12-20)                                   *)
(***************************************************************************)

\* candidateOn with "fret > 0" for "fret >= 0": the open string is lost
candidateOnNoOpen(midiNote, tuning, s) ==
    IF midiNote = NotANumber THEN <<>>
    ELSE LET open == TUNINGS[tuning]
             fret == midiNote - open[s + 1]
         IN  IF fret > 0 /\ fret <= maxFret
             THEN << [string |-> s, fret |-> fret] >>
             ELSE <<>>

\* the body of the loop for string s: the candidate pushed, if any
candidateOn(midiNote, tuning, s) ==
    IF midiNote = NotANumber THEN <<>>
    ELSE LET open == TUNINGS[tuning]
             fret == midiNote - open[s + 1]
         IN  IF fret >= 0 /\ fret <= maxFret
             THEN << [string |-> s, fret |-> fret] >>
             ELSE <<>>

\* getCandidates with "s < 5" for "s < 6": string 5 is never tried
getCandidatesFiveStrings(midiNote, tuning) ==
    Flatten([i \in 1..5 |-> candidateOn(midiNote, tuning, i - 1)])

getCandidates(midiNote, tuning) ==
    Flatten([i \in 1..6 |-> candidateOn(midiNote, tuning, i - 1)])

(***************************************************************************)
(* optimizeChord (src/TabSnap.jsx:22-55)                                   *)
(*                                                                         *)
(* The result is [threw, positions, fallback]: threw is TRUE when the call *)
(* ends in a TypeError (positions is then <<>> and never used), fallback   *)
(* tells whether line 54 took its second branch (the beam was empty).      *)
(***************************************************************************)

Returned(positions) == [threw |-> FALSE, positions |-> positions, fallback |-> FALSE]

Thrown == [threw |-> TRUE, positions |-> <<>>, fallback |-> FALSE]

\* lp => Math.abs(lp.fret - c.fret) + Math.abs(lp.string - c.string) * 2
moveDistance(lp, c) == Abs(lp.fret - c.fret) + Abs(lp.string - c.string) * 2

\* the cost of candidate c on the single-pitch path (lines 27-31)
singleCost(c, lastPositions) ==
    LET base  == dblMulInt(c.fret, D01)
        moved == IF Len(lastPositions) > 0
                 THEN dblAdd(base,
                             dblMulInt(MinSeq([i \in 1..Len(lastPositions) |->
                                                 moveDistance(lastPositions[i], c)]),
                                       D05))
                 ELSE base
    IN  IF c.fret = 0 THEN dblSub(moved, D03) ELSE moved

\* the loop of lines 26-33 from candidate i on; isInf: bestCost is Infinity
RECURSIVE singleLoop(_, _, _, _, _, _)
singleLoop(cs, lastPositions, i, best, bestCost, isInf) ==
    IF i > Len(cs) THEN best
    ELSE LET cost == singleCost(cs[i], lastPositions)
         IN  IF isInf \/ dblLess(cost, bestCost)
             THEN singleLoop(cs, lastPositions, i + 1, cs[i], cost, FALSE)
             ELSE singleLoop(cs, lastPositions, i + 1, best, bestCost, isInf)

\* lines 24-35
singlePath(cs, lastPositions) ==
    IF /\ cs # <<>>
       /\ \E i \in 1..Len(lastPositions) : lastPositions[i] = Undefined
    THEN Thrown   \* lp.fret of undefined
    ELSE Returned(<< singleLoop(cs, lastPositions, 1,
                                IF cs = <<>> THEN Undefined ELSE cs[1],
                                DZero, TRUE) >>)

\* the initial beam of line 36
beamInit == << [positions |-> <<>>, cost |-> DZero, used |-> {}] >>

\* lines 42-43: the span over the non-zero frets of state.positions and c
spanWith(state, c) ==
    LET all   == [i \in 1..Len(state.positions) |-> state.positions[i].fret]
                     \o << c.fret >>
        frets == SelectSeq(all, LAMBDA f : f > 0)
    IN  IF Len(frets) > 0 THEN MaxSeq(frets) - MinSeq(frets) ELSE 0

\* childState without "u.add(c.string)": the string is not marked as used
childStateNoAdd(state, c) ==
    LET span == spanWith(state, c)
        c1   == dblAdd(dblAdd(state.cost, dblMulInt(c.fret, D005)),
                       dblMulInt(span, D03))
        cost == IF c.fret = 0 THEN dblSub(c1, D02) ELSE c1
    IN  [positions |-> Append(state.positions, c),
         cost      |-> cost,
         used      |-> state.used]

\* lines 45-48: the state pushed for candidate c of a surviving state
childState(state, c) ==
    LET span == spanWith(state, c)
        c1   == dblAdd(dblAdd(state.cost, dblMulInt(c.fret, D005)),
                       dblMulInt(span, D03))
        cost == IF c.fret = 0 THEN dblSub(c1, D02) ELSE c1
    IN  [positions |-> Append(state.positions, c),
         cost      |-> cost,
         used      |-> state.used \cup {c.string}]

\* expandState with "span >= 5" for "span > 5": a span of exactly 5 is pruned
expandStateTight(state, candidates) ==
    LET kept == SelectSeq(candidates,
                          LAMBDA c : /\ c.string \notin state.used
                                     /\ spanWith(state, c) < SpanLimit)
    IN  [i \in 1..Len(kept) |-> childState(state, kept[i])]

\* expandState with "const u = state.used" for "new Set(state.used)": the
\* state and all its children share one set, which collects every string
\* a child takes
expandStateAliased(state, candidates) ==
    LET kept   == SelectSeq(candidates,
                            LAMBDA c : /\ c.string \notin state.used
                                       /\ spanWith(state, c) <= SpanLimit)
        shared == state.used \cup { kept[i].string : i \in 1..Len(kept) }
    IN  [i \in 1..Len(kept) |->
            [childState(state, kept[i]) EXCEPT !.used = shared]]

\* lines 40-49: the states one beam state contributes to next
expandState(state, candidates) ==
    LET kept == SelectSeq(candidates,
                          LAMBDA c : /\ c.string \notin state.used
                                     /\ spanWith(state, c) <= SpanLimit)
    IN  [i \in 1..Len(kept) |-> childState(state, kept[i])]

\* lines 38-50: next, in push order
expandBeam(beam, candidates) ==
    Flatten([i \in 1..Len(beam) |-> expandState(beam[i], candidates)])

\* next.sort((a, b) => a.cost - b.cost): a stable sort by ascending cost
RECURSIVE mergeByCost(_, _)
mergeByCost(a, b) ==
    IF a = <<>> THEN b
    ELSE IF b = <<>> THEN a
    ELSE IF dblLess(b[1].cost, a[1].cost)
         THEN << b[1] >> \o mergeByCost(a, Tail(b))
         ELSE << a[1] >> \o mergeByCost(Tail(a), b)

RECURSIVE sortByCost(_)
sortByCost(xs) ==
    IF Len(xs) <= 1 THEN xs
    ELSE LET h == Len(xs) \div 2
         IN  mergeByCost(sortByCost(SubSeq(xs, 1, h)),
                         sortByCost(SubSeq(xs, h + 1, Len(xs))))

\* one iteration of the loop of line 37 (lines 38-52)
beamStep(beam, candidates) ==
    Slice(sortByCost(expandBeam(beam, candidates)), BeamWidth)

\* the beam after the first j candidate sets
RECURSIVE beamAfter(_, _)
beamAfter(candidateSets, j) ==
    IF j = 0 THEN beamInit
    ELSE beamStep(beamAfter(candidateSets, j - 1), candidateSets[j])

\* firstCandidates that also drops a position whose string an earlier one has
RECURSIVE dropTakenStrings(_, _)
dropTakenStrings(ps, taken) ==
    IF ps = <<>> THEN <<>>
    ELSE IF ps[1].string \in taken THEN dropTakenStrings(Tail(ps), taken)
    ELSE << ps[1] >> \o dropTakenStrings(Tail(ps), taken \cup {ps[1].string})

firstCandidatesDeduplicated(candidateSets) ==
    LET firsts == [i \in 1..Len(candidateSets) |->
                     IF candidateSets[i] = <<>> THEN Undefined
                     ELSE candidateSets[i][1]]
    IN  dropTakenStrings(SelectSeq(firsts, LAMBDA x : x # Undefined), {})

\* candidateSets.map(cs => cs[0]).filter(Boolean)
firstCandidates(candidateSets) ==
    LET firsts == [i \in 1..Len(candidateSets) |->
                     IF candidateSets[i] = <<>> THEN Undefined
                     ELSE candidateSets[i][1]]
    IN  SelectSeq(firsts, LAMBDA x : x # Undefined)

\* line 54
chordResult(beam, candidateSets) ==
    IF Len(beam) > 0
    THEN Returned(beam[1].positions)
    ELSE [threw |-> FALSE, positions |-> firstCandidates(candidateSets),
          fallback |-> TRUE]

\* optimizeChord that places each pitch of a chord like a single pitch, next
\* to the previous positions, when there are previous positions
optimizeChordMoving(candidateSets, lastPositions) ==
    IF Len(candidateSets) = 0 THEN Returned(<<>>)
    ELSE IF Len(candidateSets) = 1
         THEN singlePath(candidateSets[1], lastPositions)
         ELSE IF \/ lastPositions = <<>>
                 \/ \E i \in 1..Len(lastPositions) : lastPositions[i] = Undefined
              THEN chordResult(beamAfter(candidateSets, Len(candidateSets)),
                               candidateSets)
              ELSE Returned([i \in 1..Len(candidateSets) |->
                               singlePath(candidateSets[i], lastPositions).positions[1]])

optimizeChord(candidateSets, lastPositions) ==
    IF Len(candidateSets) = 0 THEN Returned(<<>>)
    ELSE IF Len(candidateSets) = 1
         THEN singlePath(candidateSets[1], lastPositions)
         ELSE chordResult(beamAfter(candidateSets, Len(candidateSets)),
                          candidateSets)

(***************************************************************************)
(* Strings and renderAsciiTab (src/TabSnap.jsx:70-91)                      *)
(***************************************************************************)

\* the value null
Null == [null |-> TRUE]

\* a JavaScript string with the characters cs (one-character strings)
Str(cs) == [str |-> cs]

\* truthiness of a value that is undefined, null or a string
Truthy(v) == v # Undefined /\ v # Null /\ v # Str(<<>>)

\* a || b
OrElse(a, b) == IF Truthy(a) THEN a ELSE b

Digit(d) == <<"0", "1", "2", "3", "4", "5", "6", "7", "8", "9">>[d + 1]

\* String(n) for an integer n >= 0
RECURSIVE DecimalText(_)
DecimalText(n) ==
    IF n < 10 THEN << Digit(n) >>
    ELSE DecimalText(n \div 10) \o << Digit(n % 10) >>

\* s.padEnd(n, ch)
PadEnd(cs, n, ch) ==
    IF Len(cs) >= n THEN cs ELSE cs \o [i \in 1..(n - Len(cs)) |-> ch]

\* the default for PER_LINE of renderAsciiTab
PER_LINE == 8

\* ev.positions.find(p => p.string === s): [threw, found, pos]
RECURSIVE findOnString(_, _, _)
findOnString(positions, s, i) ==
    IF i > Len(positions) THEN [threw |-> FALSE, found |-> FALSE, pos |-> Undefined]
    ELSE IF positions[i] = Undefined
         THEN [threw |-> TRUE, found |-> FALSE, pos |-> Undefined]  \* p.string of undefined
         ELSE IF positions[i].string = s
              THEN [threw |-> FALSE, found |-> TRUE, pos |-> positions[i]]
              ELSE findOnString(positions, s, i + 1)

\* lines 81-83: the six characters event ev adds to the row of string s
cellText(ev, s) ==
    LET hit == findOnString(ev.positions, s, 1)
        f   == IF hit.found THEN DecimalText(hit.pos.fret) ELSE << "-" >>
    IN  << "-" >> \o PadEnd(f, 5, "-")

\* lines 79-86: the row of string s for the events of slice
rowText(slice, s) ==
    << STRING_LABELS[s + 1], "|" >>
        \o Flatten([i \in 1..Len(slice) |-> cellText(slice[i], s)])
        \o << "|" >>

\* line 76: the label row of slice
labelRow(slice) ==
    << " ", " ", " ", " " >>
        \o Flatten([i \in 1..Len(slice) |->
                      PadEnd(OrElse(slice[i].chord, Str(<<>>)).str, 6, " ")])

\* lines 74-88: the lines pushed for the block that starts at index chunk
blockLines(tabEvents, chunk) ==
    LET slice == SubSeq(tabEvents, chunk + 1, Min2(chunk + PER_LINE, Len(tabEvents)))
        label == IF \E i \in 1..Len(slice) : Truthy(slice[i].chord)
                 THEN << labelRow(slice) >> ELSE <<>>
    IN  label \o [i \in 1..6 |-> rowText(slice, i - 1)] \o << <<>> >>

\* the lines array at the end of the loop of line 73
RECURSIVE renderLines(_, _)
renderLines(tabEvents, chunk) ==
    IF chunk >= Len(tabEvents) THEN <<>>
    ELSE blockLines(tabEvents, chunk) \o renderLines(tabEvents, chunk + PER_LINE)

\* lines.join("\n")
RECURSIVE JoinLines(_)
JoinLines(ls) ==
    IF ls = <<>> THEN <<>>
    ELSE IF Len(ls) = 1 THEN ls[1]
    ELSE ls[1] \o << "\n" >> \o JoinLines(Tail(ls))

\* find reads p.string of every position up to the first match: a TypeError
\* when it meets undefined
renderThrows(tabEvents) ==
    \E i \in 1..Len(tabEvents) : \E s \in Strings :
        findOnString(tabEvents[i].positions, s, 1).threw

\* [threw, text]
renderAsciiTab(tabEvents) ==
    IF renderThrows(tabEvents)
    THEN [threw |-> TRUE, text |-> <<>>]
    ELSE [threw |-> FALSE, text |-> JoinLines(renderLines(tabEvents, 0))]

(***************************************************************************)
(* State                                                                   *)
(***************************************************************************)

VARIABLES
    pc,             \* the position of the call under study
    tuning,         \* the tuning preset in force
    midiNote,       \* getCandidates: its argument
    candidates,     \* getCandidates: its result
    notes,          \* optimizeChord: the pitches the candidate sets were made from
    candidateSets,  \* optimizeChord: its first argument
    lastPositions,  \* optimizeChord: its second argument
    beam,           \* optimizeChord: the local beam
    j,              \* optimizeChord: how many candidate sets the loop has consumed
    out,            \* optimizeChord: its result
    truncated,      \* history: slice(0, 20) has dropped a state of next
    events,         \* fretboardMap: the events consumed so far, in order
    results,        \* fretboardMap: the local results
    last,           \* fretboardMap: the local last
    fellBack,       \* history: for each result, whether line 54 took the fallback
    text,           \* renderAsciiTab: its result
    view,           \* TabSnap: the state view
    pStage,         \* TabSnap: the state pStage
    tab,            \* TabSnap: the state tab
    demo,           \* TabSnap: the state demo
    timers,         \* TabSnap: the pending setTimeout callbacks, oldest first
    runs,           \* history: how many times go() has run
    resetDone       \* history: reset() has run and go() has not run since

vars == << pc, tuning, midiNote, candidates, notes, candidateSets, lastPositions,
           beam, j, out, truncated, events, results, last, fellBack, text,
           view, pStage, tab, demo, timers, runs, resetDone >>

candVars  == << midiNote, candidates >>
chordVars == << notes, candidateSets, lastPositions, beam, j, out, truncated >>
mapVars   == << events, results, last, fellBack, text >>
hostVars  == << view, pStage, tab, demo, timers, runs, resetDone >>

\* the values of the variables a specification does not use
candIdle  == midiNote = 0 /\ candidates = <<>>
chordIdle == /\ notes = <<>> /\ candidateSets = <<>> /\ lastPositions = <<>>
             /\ beam = <<>> /\ j = 0 /\ out = Returned(<<>>) /\ truncated = FALSE
mapIdle   == /\ events = <<>> /\ results = <<>> /\ last = <<>>
             /\ fellBack = <<>> /\ text = <<>>
hostIdle  == /\ view = "input" /\ pStage = 0 /\ tab = Null /\ demo = "wonderwall"
             /\ timers = <<>> /\ runs = 0 /\ resetDone = FALSE

(***************************************************************************)
(* Bounds and input sets                                                   *)
(***************************************************************************)

\* getCandidates is applied to the pitches -PitchMargin .. 127 + PitchMargin
PitchMargin == 3

\* the longest pitch list optimizeChord is applied to
MaxChord == 7

\* the longest event sequence fretboardMap is applied to
MaxEvents == 2

\* The pitches chords are built from: the Em7 chord of DEMOS.wonderwall
\* (line 99), pitches high on the neck, and 90, which no string reaches in
\* any tuning.
ChordPool == {40, 47, 52, 55, 59, 64, 65, 70, 83, 90}

\* the pitches of S in ascending order (as DEMOS lists its chords)
RECURSIVE Ascending(_)
Ascending(S) ==
    IF S = {} THEN <<>>
    ELSE LET m == CHOOSE x \in S : \A y \in S : x <= y
         IN  << m >> \o Ascending(S \ {m})

ChordInputs == { Ascending(S) : S \in { T \in SUBSET ChordPool : Cardinality(T) <= MaxChord } }

\* previous positions handed to optimizeChord
LastInputs ==
    { <<>>,
      << Undefined >>,
      << [string |-> 5, fret |-> 0] >>,
      << [string |-> 0, fret |-> 12], [string |-> 3, fret |-> 2] >> }

\* ev.notes of the events fretboardMap is applied to: a list, or a bare pitch
NoteInputs ==
    { [array |-> <<>>],
      [array |-> << NotANumber >>],
      [array |-> << 0 >>],
      [array |-> << 40 >>],
      [scalar |-> 45],
      [array |-> << 64, 64 >>],
      [array |-> << 40, 41 >>],
      [array |-> << 40, 47, 52 >>],
      [array |-> << 0, 52 >>] }

\* time, duration and chord of those events
MetaInputs ==
    { [time |-> 0, duration |-> 1, chord |-> Undefined],
      [time |-> 1, duration |-> 2, chord |-> Str(<<"E", "m", "7">>)],
      [time |-> 1, duration |-> 1, chord |-> Str(<<>>)] }

EventInputs ==
    { [time |-> m.time, duration |-> m.duration, notes |-> n, chord |-> m.chord] :
        m \in MetaInputs, n \in NoteInputs }

(***************************************************************************)
(* getCandidates as a state machine                                        *)
(***************************************************************************)

InitCand ==
    /\ pc = "getCandidates"
    /\ tuning \in TuningNames
    /\ midiNote \in (0 - PitchMargin)..(127 + PitchMargin)
    /\ candidates = <<>>
    /\ chordIdle /\ mapIdle /\ hostIdle

GetCandidates ==
    /\ pc = "getCandidates"
    /\ candidates' = getCandidates(midiNote, tuning)
    /\ pc' = "gotCandidates"
    /\ UNCHANGED << tuning, midiNote, chordVars, mapVars, hostVars >>

NextCand == GetCandidates

SpecCand == InitCand /\ [][NextCand]_vars

(***************************************************************************)
(* optimizeChord as a state machine: one step per return and per iteration *)
(* of the loop of line 37                                                  *)
(***************************************************************************)

InitChord ==
    /\ pc = "optimizeChord"
    /\ tuning \in TuningNames
    /\ notes \in ChordInputs
    /\ candidateSets = [i \in 1..Len(notes) |-> getCandidates(notes[i], tuning)]
    /\ lastPositions \in LastInputs
    /\ beam = beamInit
    /\ j = 0
    /\ out = Returned(<<>>)
    /\ truncated = FALSE
    /\ candIdle /\ mapIdle /\ hostIdle

\* line 23
ReturnEmpty ==
    /\ pc = "optimizeChord"
    /\ Len(candidateSets) = 0
    /\ out' = Returned(<<>>)
    /\ pc' = "optimized"
    /\ UNCHANGED << tuning, candVars, notes, candidateSets, lastPositions, beam, j,
                    truncated, mapVars, hostVars >>

\* lines 24-35
ReturnSingle ==
    /\ pc = "optimizeChord"
    /\ Len(candidateSets) = 1
    /\ \E r \in { singlePath(candidateSets[1], lastPositions) } :
           /\ out' = r
           /\ pc' = IF r.threw THEN "threw" ELSE "optimized"
    /\ UNCHANGED << tuning, candVars, notes, candidateSets, lastPositions, beam, j,
                    truncated, mapVars, hostVars >>

\* lines 37-53, one candidate set
BeamIterate ==
    /\ pc = "optimizeChord"
    /\ Len(candidateSets) >= 2
    /\ j < Len(candidateSets)
    /\ beam' = beamStep(beam, candidateSets[j + 1])
    /\ truncated' = (truncated \/ Len(expandBeam(beam, candidateSets[j + 1])) > BeamWidth)
    /\ j' = j + 1
    /\ UNCHANGED << pc, tuning, candVars, notes, candidateSets, lastPositions, out, mapVars,
                    hostVars >>

\* line 54
ReturnChord ==
    /\ pc = "optimizeChord"
    /\ Len(candidateSets) >= 2
    /\ j = Len(candidateSets)
    /\ out' = chordResult(beam, candidateSets)
    /\ pc' = "optimized"
    /\ UNCHANGED << tuning, candVars, notes, candidateSets, lastPositions, beam, j,
                    truncated, mapVars, hostVars >>

NextChord == ReturnEmpty \/ ReturnSingle \/ BeamIterate \/ ReturnChord

SpecChord == InitChord /\ [][NextChord]_vars

(***************************************************************************)
(* fretboardMap (src/TabSnap.jsx:57-68) followed by renderAsciiTab         *)
(***************************************************************************)

\* line 61
notesOf(ev) ==
    IF "array" \in DOMAIN ev.notes THEN ev.notes.array ELSE << ev.notes.scalar >>

\* line 62
candidatesOf(ev, t) ==
    LET ns == notesOf(ev) IN [i \in 1..Len(ns) |-> getCandidates(ns[i], t)]

\* line 64: the object pushed
mappedEvent(ev, best) ==
    [time |-> ev.time, duration |-> ev.duration, positions |-> best,
     chord |-> OrElse(ev.chord, Null)]

Init ==
    /\ pc = "fretboardMap"
    /\ tuning \in TuningNames
    /\ events = <<>>
    /\ results = <<>>
    /\ last = <<>>
    /\ fellBack = <<>>
    /\ text = <<>>
    /\ candIdle /\ chordIdle /\ hostIdle

\* one iteration of the loop of line 60, for the next event ev of the input
MapEvent(ev) ==
    /\ pc = "fretboardMap"
    /\ Len(events) < MaxEvents
    /\ events' = Append(events, ev)
    /\ \E best \in { optimizeChord(candidatesOf(ev, tuning), last) } :
           IF best.threw
           THEN /\ pc' = "mapThrew"
                /\ UNCHANGED << results, last, fellBack >>
           ELSE /\ results' = Append(results, mappedEvent(ev, best.positions))
                /\ last' = best.positions
                /\ fellBack' = Append(fellBack, best.fallback)
                /\ pc' = pc
    /\ UNCHANGED << tuning, candVars, chordVars, text, hostVars >>

\* line 67: the input is exhausted
ReturnResults ==
    /\ pc = "fretboardMap"
    /\ pc' = "returned"
    /\ UNCHANGED << tuning, candVars, chordVars, mapVars, hostVars >>

\* renderAsciiTab applied to what fretboardMap returned
Render ==
    /\ pc = "returned"
    /\ \E r \in { renderAsciiTab(results) } :
           /\ text' = r.text
           /\ pc' = IF r.threw THEN "renderThrew" ELSE "rendered"
    /\ UNCHANGED << tuning, candVars, chordVars, events, results, last, fellBack,
                    hostVars >>

Next ==
    \/ \E ev \in EventInputs : MapEvent(ev)
    \/ ReturnResults
    \/ Render

Spec == Init /\ [][Next]_vars

(***************************************************************************)
(* Properties                                                              *)
(***************************************************************************)

\* the elements of a sequence
Range(xs) == { xs[i] : i \in 1..Len(xs) }

\* pitch p sounds on string s at a fret of 0..22 in tuning t
PlayableOn(p, t, s) ==
    p # NotANumber /\ p - TUNINGS[t][s + 1] >= 0 /\ p - TUNINGS[t][s + 1] <= 22

\* C1: getCandidates(p, T) returns exactly the positions (s, f) with s in
\* 0..5, f = p - open_T[s] and 0 <= f <= 22, each string at most once, in
\* strictly ascending string order (the empty list when no string reaches p).
C1_CandidatesExact ==
    pc = "gotCandidates" =>
        /\ \A i \in 1..Len(candidates) :
              /\ candidates[i].string \in 0..5
              /\ PlayableOn(midiNote, tuning, candidates[i].string)
              /\ candidates[i].fret = midiNote - TUNINGS[tuning][candidates[i].string + 1]
        /\ \A s \in 0..5 :
              PlayableOn(midiNote, tuning, s) =>
                  [string |-> s, fret |-> midiNote - TUNINGS[tuning][s + 1]]
                      \in Range(candidates)
        /\ \A a, b \in 1..Len(candidates) :
              a < b => candidates[a].string < candidates[b].string

\* C1 witness: a pitch found on five strings, the first of them open
C1_Witness ==
    /\ pc = "gotCandidates"
    /\ Len(candidates) = 5
    /\ candidates[1].fret = 0

\* max - min over the non-zero frets of F, 0 when there is none
SpanOfFrets(F) ==
    LET nz == { f \in F : f > 0 }
    IN  IF nz = {} THEN 0
        ELSE (CHOOSE x \in nz : \A y \in nz : y <= x)
                 - (CHOOSE x \in nz : \A y \in nz : x <= y)

\* some choice of one candidate per remaining set uses strings outside S,
\* pairwise distinct, and keeps the span of all frets (with those of F) <= 5
RECURSIVE AssignmentExists(_, _, _)
AssignmentExists(cs, S, F) ==
    IF cs = <<>> THEN TRUE
    ELSE \E i \in 1..Len(cs[1]) :
            LET c == cs[1][i]
            IN  /\ c.string \notin S
                /\ SpanOfFrets(F \cup {c.fret}) <= 5
                /\ AssignmentExists(Tail(cs), S \cup {c.string}, F \cup {c.fret})

\* the chord of this call: k pitches, 2 <= k <= 6, each with a candidate, and
\* an assignment on distinct strings with span <= 5 exists
C2_Chord ==
    /\ pc = "optimized"
    /\ Len(notes) >= 2 /\ Len(notes) <= 6
    /\ \A i \in 1..Len(candidateSets) : candidateSets[i] # <<>>
    /\ AssignmentExists(candidateSets, {}, {})

\* optimizeChord returned one candidate per pitch, on pairwise distinct
\* strings, and not through the fallback
C2_Complete ==
    /\ ~out.fallback
    /\ Len(out.positions) = Len(notes)
    /\ \A i \in 1..Len(notes) : out.positions[i] \in Range(candidateSets[i])
    /\ \A a, b \in 1..Len(out.positions) :
          a # b => out.positions[a].string # out.positions[b].string

\* C2 as stated: every chord of 2..6 pitches that has an assignment on
\* distinct strings with span <= 5 gets k positions on k distinct strings.
C2_AsStated == C2_Chord => C2_Complete

\* C2 amended: the same, for the chords during whose search no pitch produces
\* more than 20 expanded states, so that slice(0, 20) never drops a state.
C2_CompleteWhenNotTruncated == (C2_Chord /\ ~truncated) => C2_Complete

\* C2 witness: a six-pitch chord that has an assignment, searched without
\* truncation and answered on six distinct strings
C2_Witness ==
    /\ C2_Chord /\ ~truncated /\ C2_Complete
    /\ Len(notes) = 6

\* C5: in every mapped event no two positions share a string index, unless
\* optimizeChord took the fallback of line 54 for that event.
C5_DistinctStringsUnlessFallback ==
    \A i \in 1..Len(results) :
        ~fellBack[i] =>
            \A a, b \in 1..Len(results[i].positions) :
                (/\ a # b
                 /\ results[i].positions[a] # Undefined
                 /\ results[i].positions[b] # Undefined)
                    => results[i].positions[a].string # results[i].positions[b].string

\* C5 witness: a chord mapped without the fallback to three positions, after
\* a chord that took the fallback and has two positions on one string
C5_Witness ==
    /\ Len(results) = 2
    /\ fellBack[1]
    /\ Len(results[1].positions) = 2
    /\ results[1].positions[1].string = results[1].positions[2].string
    /\ ~fellBack[2]
    /\ Len(results[2].positions) = 3

\* the candidate of pitch p on the lowest string index that reaches it
FirstPosition(p, t) ==
    LET s0 == CHOOSE s \in 0..5 :
                  PlayableOn(p, t, s) /\ \A r \in 0..(s - 1) : ~PlayableOn(p, t, r)
    IN  [string |-> s0, fret |-> p - TUNINGS[t][s0 + 1]]

Reachable(p, t) == \E s \in 0..5 : PlayableOn(p, t, s)

\* the chord of this call has 7 pairwise distinct pitches
C6_SevenPitches ==
    /\ pc = "optimized"
    /\ Len(notes) = 7
    /\ \A a, b \in 1..7 : a # b => notes[a] # notes[b]

\* C6 as stated: a chord of 7 distinct pitches yields exactly 7 positions.
C6_AsStated == C6_SevenPitches => Len(out.positions) = 7

\* C6 amended: a chord of 7 distinct pitches, each of which some string
\* reaches, yields exactly 7 positions, the i-th being the first candidate of
\* the i-th pitch; a pitch no string reaches contributes no position.
C6_SevenReachablePitches ==
    C6_SevenPitches =>
        /\ out.fallback
        /\ (\A i \in 1..7 : Reachable(notes[i], tuning)) =>
               /\ Len(out.positions) = 7
               /\ \A i \in 1..7 : out.positions[i] = FirstPosition(notes[i], tuning)
        /\ Len(out.positions) = Cardinality({ i \in 1..7 : Reachable(notes[i], tuning) })

\* C6 witness: 7 reachable pitches answered with 7 positions, two of them on
\* one string
C6_Witness ==
    /\ C6_SevenPitches
    /\ \A i \in 1..7 : Reachable(notes[i], tuning)
    /\ Len(out.positions) = 7
    /\ \E a, b \in 1..7 : a # b /\ out.positions[a].string = out.positions[b].string

\* a Position: string in 0..5 and fret in 0..22
IsPosition(x) ==
    /\ x # Undefined
    /\ x.string \in 0..5
    /\ x.fret \in 0..22

\* the pitch list of ev is a non-empty list of integers in 0..127
ValidTyped(ev) ==
    /\ notesOf(ev) # <<>>
    /\ \A n \in 1..Len(notesOf(ev)) : notesOf(ev)[n] \in 0..127

\* every event handed to fretboardMap so far is valid-typed
ValidInput == \A i \in 1..Len(events) : ValidTyped(events[i])

\* C3: an unreachable pitch is silently omitted: a mapped event has no entry
\* in positions for a pitch without candidates, and every element of
\* positions is a Position with string in 0..5 and fret in 0..22 (stated for
\* valid-typed input).
C3_UnreachableOmitted ==
    ValidInput => \A i \in 1..Len(results) :
        LET ns == notesOf(events[i])
        IN  (\E n \in 1..Len(ns) : ~Reachable(ns[n], tuning)) =>
                /\ \A a \in 1..Len(results[i].positions) :
                      IsPosition(results[i].positions[a])
                /\ Len(results[i].positions)
                      = Cardinality({ n \in 1..Len(ns) : Reachable(ns[n], tuning) })

\* C4: fretboardMap over a sequence of valid-typed events, then
\* renderAsciiTab on its output, never ends in an exception.
C4_NoException ==
    ValidInput => pc \notin {"mapThrew", "renderThrew"}

\* ten times the cost of candidate c of a single-pitch event after the
\* positions prior: 0.1*fret + 0.5*min(|df| + 2*|ds|) - 0.3 if fret = 0
TenfoldCost(c, prior) ==
    c.fret
      + (IF prior = <<>> THEN 0
         ELSE 5 * (CHOOSE m \in { Abs(prior[a].fret - c.fret)
                                    + 2 * Abs(prior[a].string - c.string) :
                                  a \in 1..Len(prior) } :
                     \A a \in 1..Len(prior) :
                        m <= Abs(prior[a].fret - c.fret)
                               + 2 * Abs(prior[a].string - c.string)))
      - (IF c.fret = 0 THEN 3 ELSE 0)

\* c is the cheapest of the candidates cs, the earliest among equals
CheapestFirst(c, cs, prior) ==
    \E a \in 1..Len(cs) :
        /\ cs[a] = c
        /\ \A b \in 1..Len(cs) : TenfoldCost(cs[a], prior) <= TenfoldCost(cs[b], prior)
        /\ \A b \in 1..(a - 1) : TenfoldCost(cs[a], prior) < TenfoldCost(cs[b], prior)

\* the positions emitted for the event before event i
PriorOf(i) == IF i = 1 THEN <<>> ELSE results[i - 1].positions

\* C7: a single-pitch event with a candidate gets exactly one position, the
\* cheapest candidate (the earliest among equals) given the positions of the
\* event before it; pitch 40 in standard tuning with no prior positions gets
\* string 5, fret 0 (stated for valid-typed input).
C7_SingleCheapest ==
    ValidInput => \A i \in 1..Len(events) :
        LET ns == notesOf(events[i])
        IN  (Len(ns) = 1 /\ Reachable(ns[1], tuning)) =>
                /\ i <= Len(results)
                /\ Len(results[i].positions) = 1
                /\ CheapestFirst(results[i].positions[1],
                                 getCandidates(ns[1], tuning), PriorOf(i))
                /\ (ns[1] = 40 /\ tuning = "standard" /\ i = 1) =>
                       results[i].positions[1] = [string |-> 5, fret |-> 0]

\* C8: last is empty before the first event and afterwards equals the
\* positions emitted for the latest event, the empty list when none of that
\* event's pitches is reachable; each event is optimised against the
\* positions emitted for the event before it (stated for valid-typed input).
C8_LastIsLatestResult ==
    (ValidInput /\ pc = "fretboardMap") =>
        /\ last = (IF results = <<>> THEN <<>> ELSE results[Len(results)].positions)
        /\ \A i \in 1..Len(results) :
              LET ns == notesOf(events[i])
              IN  /\ (\A n \in 1..Len(ns) : ~Reachable(ns[n], tuning)) =>
                         results[i].positions = <<>>
                  /\ Len(ns) = 1 /\ Reachable(ns[1], tuning) =>
                         CheapestFirst(results[i].positions[1],
                                       getCandidates(ns[1], tuning), PriorOf(i))

\* the event has an empty pitch list or a pitch that is not a number
Malformed(ev) ==
    \/ notesOf(ev) = <<>>
    \/ \E n \in 1..Len(notesOf(ev)) : notesOf(ev)[n] = NotANumber

\* C9: malformed input fails fast: an event with an empty pitch list or a
\* non-numeric pitch is never turned into a mapped event.
C9_MalformedRejected ==
    \A i \in 1..Len(results) : ~Malformed(events[i])

\* C10: fretboardMap returns, for an input of n events, n mapped events in
\* the same order, the i-th carrying the time, duration and label (null when
\* absent) of the i-th input event (stated for valid-typed input).
C10_EqualLengthPassthrough ==
    ValidInput =>
    /\ pc # "mapThrew"
    /\ pc \in {"returned", "rendered", "renderThrew"} =>
          /\ Len(results) = Len(events)
          /\ \A i \in 1..Len(results) :
                /\ results[i].time = events[i].time
                /\ results[i].duration = events[i].duration
                /\ results[i].chord = (IF events[i].chord = Undefined THEN Null
                                       ELSE events[i].chord)

(***************************************************************************)
(* renderAsciiTab on its own (src/TabSnap.jsx:70-91)                       *)
(***************************************************************************)

\* the longest list of mapped events renderAsciiTab is applied to
MaxTab == 17

\* Events whose mapped form renderAsciiTab is applied to: pitch 48 (one
\* position, string 4 fret 3), a labelled chord, pitch 0 (no string reaches
\* it), two pitches that end on one string under an empty label, and pitch
\* 83 (a fret of two digits) under a label.
TabSources ==
    { [time |-> 0, duration |-> 1, notes |-> [array |-> << 48 >>], chord |-> Undefined],
      [time |-> 0, duration |-> 1, notes |-> [array |-> << 40, 47, 52 >>],
       chord |-> Str(<< "E", "m", "7" >>)],
      [time |-> 0, duration |-> 1, notes |-> [array |-> << 0 >>], chord |-> Undefined],
      [time |-> 0, duration |-> 1, notes |-> [array |-> << 40, 41 >>], chord |-> Str(<<>>)],
      [time |-> 0, duration |-> 1, notes |-> [array |-> << 83 >>], chord |-> Str(<< "G" >>)] }

\* what fretboardMap([ev], "standard") returns for those events
TabPool ==
    { mappedEvent(ev, optimizeChord(candidatesOf(ev, "standard"), <<>>).positions) :
        ev \in TabSources }

\* lists of n mapped events, all equal to a but the k-th, which is b
TabInputs ==
    { [i \in 1..n |-> IF i = k THEN b ELSE a] :
        n \in 0..MaxTab, k \in 1..MaxTab, a \in TabPool, b \in TabPool }

InitRender ==
    /\ pc = "returned"
    /\ tuning = "standard"
    /\ events = <<>>
    /\ results \in TabInputs
    /\ last = <<>>
    /\ fellBack = <<>>
    /\ text = <<>>
    /\ candIdle /\ chordIdle /\ hostIdle

NextRender == Render

SpecRender == InitRender /\ [][NextRender]_vars

\* the lines of a text: its pieces between line feeds
SplitLines(cs) ==
    IF cs = <<>> THEN <<>>
    ELSE LET feeds  == { i \in 1..Len(cs) : cs[i] = "\n" }
             \* the index of the k-th line feed; 0 and Len(cs) + 1 bracket the text
             feed(k) == IF k = 0 THEN 0
                        ELSE IF k > Cardinality(feeds) THEN Len(cs) + 1
                        ELSE CHOOSE i \in feeds :
                                Cardinality({ x \in feeds : x <= i }) = k
         IN  [k \in 1..(Cardinality(feeds) + 1) |->
                 SubSeq(cs, feed(k - 1) + 1, feed(k) - 1)]

\* the number of blocks for n events, ceil(n / 8), and the events of block b
BlockCount(n) == (n + 7) \div 8
BlockFirst(b) == 8 * b + 1
BlockLast(b)  == Min2(8 * b + 8, Len(results))

\* some event of block b carries a label
BlockLabelled(b) ==
    \E i \in BlockFirst(b)..BlockLast(b) :
        results[i].chord # Null /\ results[i].chord # Str(<<>>)

\* the number of lines of block b: label row or not, six rows, a blank line
BlockHeight(b) == (IF BlockLabelled(b) THEN 1 ELSE 0) + 6 + 1

\* the index of the first line of block b among the lines of the text
RECURSIVE BlockTop(_)
BlockTop(b) == IF b = 0 THEN 1 ELSE BlockTop(b - 1) + BlockHeight(b - 1)

\* the line of string s in block b
RowOf(ls, b, s) == ls[BlockTop(b) + (IF BlockLabelled(b) THEN 1 ELSE 0) + s]

\* the six characters of event i in the row of string s
CellOf(ls, i, s) ==
    LET c == (i - 1) % 8
    IN  SubSeq(RowOf(ls, (i - 1) \div 8, s), 3 + 6 * c, 8 + 6 * c)

\* the frets of the positions event i has on string s
FretsOn(i, s) ==
    { results[i].positions[a].fret :
        a \in { x \in 1..Len(results[i].positions) :
                  /\ results[i].positions[x] # Undefined
                  /\ results[i].positions[x].string = s } }

Dashes(n) == [i \in 1..n |-> "-"]

\* C11: renderAsciiTab returns a text in which, for every event e and every
\* string s in 0..5, the cell of e in the row of s is 6 characters wide: a
\* dash, then the decimal fret number of a position of e on string s
\* right-padded with dashes to 5 if e has a position on s, and dashes only
\* otherwise; the row of a block with k events has length 3 + 6k.
C11_CellsShowFrets ==
    pc \in {"rendered", "renderThrew"} =>
        /\ pc = "rendered"
        /\ LET ls == SplitLines(text)
           IN  \A i \in 1..Len(results) : \A s \in Strings :
                  LET b == (i - 1) \div 8
                      k == BlockLast(b) - BlockFirst(b) + 1
                  IN  /\ Len(RowOf(ls, b, s)) = 3 + 6 * k
                      /\ IF FretsOn(i, s) = {}
                         THEN CellOf(ls, i, s) = Dashes(6)
                         ELSE \E f \in FretsOn(i, s) :
                                 CellOf(ls, i, s)
                                    = << "-" >> \o DecimalText(f)
                                        \o Dashes(5 - Len(DecimalText(f)))

\* C12: for n mapped events renderAsciiTab returns ceil(n/8) blocks in event
\* order, block b covering events 8b .. min(8b+7, n-1); each block is one
\* label row iff an event of the block carries a label, then six rows for
\* strings 0..5 that start with e|, B|, G|, D|, A|, E| and end with |, then
\* one blank line.
C12_BlocksOfEight ==
    pc \in {"rendered", "renderThrew"} =>
        /\ pc = "rendered"
        /\ LET ls == SplitLines(text)
               nb == BlockCount(Len(results))
           IN  /\ Len(ls) = BlockTop(nb) - 1
               /\ \A b \in 0..(nb - 1) :
                     /\ BlockLabelled(b) =>
                           /\ SubSeq(ls[BlockTop(b)], 1, 4) = << " ", " ", " ", " " >>
                           /\ Len(ls[BlockTop(b)]) = 4 + 6 * (BlockLast(b) - BlockFirst(b) + 1)
                     /\ \A s \in Strings :
                           LET row == RowOf(ls, b, s)
                           IN  /\ SubSeq(row, 1, 2) = << STRING_LABELS[s + 1], "|" >>
                               /\ row[Len(row)] = "|"
                               /\ Len(row) = 3 + 6 * (BlockLast(b) - BlockFirst(b) + 1)
                     /\ ls[BlockTop(b) + BlockHeight(b) - 1] = <<>>

\* twenty times the chord-path cost of the assignment ps: the sum over its
\* positions, in order, of 0.05*fret + 0.3*(span of the frets so far)
\* - 0.2 if fret = 0
RECURSIVE TwentyfoldChordCost(_, _)
TwentyfoldChordCost(ps, n) ==
    IF n = 0 THEN 0
    ELSE TwentyfoldChordCost(ps, n - 1)
           + ps[n].fret
           + 6 * SpanOfFrets({ ps[i].fret : i \in 1..n })
           - (IF ps[n].fret = 0 THEN 4 ELSE 0)

\* the chord of line 99, in standard tuning, has been optimised
C13_Em7 ==
    /\ pc = "optimized"
    /\ tuning = "standard"
    /\ notes = << 40, 47, 52, 55, 59, 64 >>

\* C13: the chord [40,47,52,55,59,64] in standard tuning is mapped to 6
\* positions, the i-th sounding the i-th pitch, on 6 pairwise distinct
\* strings with frets in 0..22, at a total chord-path cost no greater than
\* that of the first candidate of each pitch.
C13_Em7Fixture ==
    C13_Em7 =>
        /\ Len(out.positions) = 6
        /\ \A i \in 1..6 :
              /\ IsPosition(out.positions[i])
              /\ out.positions[i].fret
                    = notes[i] - TUNINGS[tuning][out.positions[i].string + 1]
        /\ \A a, b \in 1..6 :
              a # b => out.positions[a].string # out.positions[b].string
        /\ TwentyfoldChordCost(out.positions, 6)
              <= TwentyfoldChordCost([i \in 1..6 |-> FirstPosition(notes[i], tuning)], 6)

\* C13 witness: the chord of line 99 answered by the beam search with the
\* open strings 5, 2, 1, 0 and fret 2 on strings 4 and 3
C13_Witness ==
    /\ C13_Em7
    /\ ~out.fallback
    /\ out.positions = << [string |-> 5, fret |-> 0], [string |-> 4, fret |-> 2],
                          [string |-> 3, fret |-> 2], [string |-> 2, fret |-> 0],
                          [string |-> 1, fret |-> 0], [string |-> 0, fret |-> 0] >>

\* C14: throughout the beam search, after the j-th pitch every surviving
\* state has exactly j positions, its used set is exactly the set of the
\* strings of its own positions, no string occurs twice in it, the span over
\* its non-zero frets is <= 5, and at most 20 states survive.
C14_BeamStates ==
    /\ Len(beam) <= 20
    /\ \A b \in 1..Len(beam) :
          LET ps == beam[b].positions
          IN  /\ Len(ps) = j
              /\ beam[b].used = { ps[i].string : i \in 1..Len(ps) }
              /\ Cardinality(beam[b].used) = j
              /\ \A i \in 1..Len(ps) : ps[i] \in Range(candidateSets[i])
              /\ SpanOfFrets({ ps[i].fret : i \in 1..Len(ps) }) <= 5

\* C14 witness: in the middle of a search, after the fourth pitch, slice(0, 20)
\* has dropped states and 20 states survive, one of them with span 5
C14_Witness ==
    /\ pc = "optimizeChord"
    /\ j = 4 /\ j < Len(candidateSets)
    /\ truncated
    /\ Len(beam) = 20
    /\ \E b \in 1..Len(beam) :
          SpanOfFrets({ beam[b].positions[i].fret : i \in 1..4 }) = 5

MaxRuns == 2

\* the keys of DEMOS
DemoNames == {"wonderwall", "blues", "fingerpick"}

\* line 295, in units of 100 ms
delays == << 11, 22, 16, 7, 5 >>

\* line 306, in units of 100 ms
resultDelay == 4

\* line 305: the tab object set for demo d
tabOf(d) == [demo |-> d]

InitHost ==
    /\ pc = "host"
    /\ tuning = "standard"
    /\ view = "input"
    /\ pStage = 0
    /\ tab = Null
    /\ demo = "wonderwall"
    /\ timers = <<>>
    /\ runs = 0
    /\ resetDone = FALSE
    /\ candIdle /\ chordIdle /\ mapIdle

\* line 396: a demo button, shown in the input view
SetDemo(k) ==
    /\ view = "input"
    /\ demo # k
    /\ demo' = k
    /\ UNCHANGED << pc, tuning, candVars, chordVars, mapVars,
                    view, pStage, tab, timers, runs, resetDone >>

\* lines 293-310: the Generate button (line 405), shown in the input view
Go ==
    /\ view = "input"
    /\ runs < MaxRuns
    /\ view' = "processing"
    /\ pStage' = 0
    /\ timers' = Append(timers, [kind |-> "tick", s |-> 0, demo |-> demo,
                                 left |-> delays[1]])
    /\ runs' = runs + 1
    /\ resetDone' = FALSE
    /\ UNCHANGED << pc, tuning, candVars, chordVars, mapVars, tab, demo >>

\* lines 326-329: the New button (line 360), shown outside the input view;
\* timerRef holds no identifier of a setTimeout, so no callback is cancelled
Reset ==
    /\ view # "input"
    /\ view' = "input"
    /\ tab' = Null
    /\ pStage' = 0
    /\ resetDone' = TRUE
    /\ UNCHANGED << pc, tuning, candVars, chordVars, mapVars, demo, timers, runs >>

\* the list xs without its i-th element
Without(xs, i) == SubSeq(xs, 1, i - 1) \o SubSeq(xs, i + 1, Len(xs))

\* lines 297-308: the callback tick of the i-th pending timer runs
Tick(i) ==
    /\ i \in 1..Len(timers)
    /\ timers[i].kind = "tick"
    /\ timers[i].left = 0
    /\ LET s == timers[i].s + 1
       IN  IF s < 5
           THEN /\ pStage' = s
                /\ timers' = Append(Without(timers, i),
                                    [kind |-> "tick", s |-> s, demo |-> timers[i].demo,
                                     left |-> delays[s + 1]])
                /\ tab' = tab
           ELSE /\ pStage' = 5
                /\ tab' = tabOf(timers[i].demo)
                /\ timers' = Append(Without(timers, i),
                                    [kind |-> "show", s |-> s, demo |-> timers[i].demo,
                                     left |-> resultDelay])
    /\ UNCHANGED << pc, tuning, candVars, chordVars, mapVars, view, demo, runs, resetDone >>

\* line 306: the callback () => setView("result") of the i-th pending timer
ShowResult(i) ==
    /\ i \in 1..Len(timers)
    /\ timers[i].kind = "show"
    /\ timers[i].left = 0
    /\ view' = "result"
    /\ timers' = Without(timers, i)
    /\ UNCHANGED << pc, tuning, candVars, chordVars, mapVars, pStage, tab, demo, runs,
                    resetDone >>

\* 100 ms pass while no pending callback is due
Elapse ==
    /\ timers # <<>>
    /\ \A i \in 1..Len(timers) : timers[i].left > 0
    /\ timers' = [i \in 1..Len(timers) |-> [timers[i] EXCEPT !.left = @ - 1]]
    /\ UNCHANGED << pc, tuning, candVars, chordVars, mapVars, view, pStage, tab, demo,
                    runs, resetDone >>

NextHost ==
    \/ \E k \in DemoNames : SetDemo(k)
    \/ Go
    \/ Reset
    \/ \E i \in 1..MaxRuns : Tick(i)
    \/ \E i \in 1..MaxRuns : ShowResult(i)
    \/ Elapse

SpecHost == InitHost /\ [][NextHost]_vars

\* C16: once reset() has run, the view is "input" and tab is null until
\* go() runs again, whatever callbacks are pending; and the timer chain of an
\* earlier go() is never pending together with that of a later one.
C16_ResetIsFinal ==
    /\ resetDone => (view = "input" /\ tab = Null)
    /\ Len(timers) <= 1

=============================================================================
